---------------------------- MODULE Spec2Model ----------------------------
(***************************************************************************)
(* Model of summary-metrics/video_aggregator.py: the pipeline              *)
(*   fetch_raw_events_from_db -> aggregate_buffering_data                  *)
(*                            -> generate_summary_metrics                  *)
(* A timestamp is a Python value: a str (read character by character       *)
(* through Chars) or None.  Strings are ordered as Python orders them      *)
(* (code points), and parsed as datetime.fromisoformat parses them after   *)
(* .strip('Z').                                                            *)
(* Time values are whole seconds relative to 2023-10-27T00:00:00; only     *)
(* differences and comparisons of time values are observed by the code.    *)
(***************************************************************************)
EXTENDS Integers, Sequences, FiniteSets, TLC

VARIABLES
    raw_events,       \* the argument of aggregate_buffering_data
    sorted_events,    \* line 43
    idx,              \* position of the for loop of line 49 in sorted_events
    session_states,   \* line 46: session_id -> parsed time of the pending start
    aggregated_data,  \* line 47: session_id -> running total and count
    stdout,           \* the diagnostics printed at lines 58 and 79, in order
    pc,               \* "sort", "loop", "returned", "done" or "raised"
    exc,              \* the exception that left the call, or "none"
    summary           \* the result of generate_summary_metrics, or NoSummary

vars == <<raw_events, sorted_events, idx, session_states, aggregated_data,
          stdout, pc, exc, summary>>

----------------------------------------------------------------------------
(* Bounds of the model *)

\* longest input list drawn for aggregate_buffering_data
MaxEvents == 3

\* largest buffer_events_count of an entry handed directly to generate_summary_metrics
MaxCount == 2

\* largest |total_buffer_duration_seconds| of such an entry
MaxTotal == 2

----------------------------------------------------------------------------
(* Python strings and their order *)

Digits == {"0", "1", "2", "3", "4", "5", "6", "7", "8", "9"}

\* the code point of each character the model's strings use
Ord(c) ==
    CASE c = " " -> 32
      [] c = "+" -> 43
      [] c = "-" -> 45
      [] c = "0" -> 48
      [] c = "1" -> 49
      [] c = "2" -> 50
      [] c = "3" -> 51
      [] c = "4" -> 52
      [] c = "5" -> 53
      [] c = "6" -> 54
      [] c = "7" -> 55
      [] c = "8" -> 56
      [] c = "9" -> 57
      [] c = ":" -> 58
      [] c = "T" -> 84
      [] c = "Z" -> 90

DigitVal(c) == Ord(c) - 48

\* a < b for two Python strings: lexicographic by code point, a proper prefix first
RECURSIVE StrLess(_, _)
StrLess(a, b) ==
    IF b = <<>> THEN FALSE
    ELSE IF a = <<>> THEN TRUE
    ELSE IF Head(a) = Head(b) THEN StrLess(Tail(a), Tail(b))
    ELSE Ord(Head(a)) < Ord(Head(b))

\* s.strip('Z'): every leading and every trailing 'Z' removed
RECURSIVE StripZ(_)
StripZ(s) ==
    IF s = <<>> THEN s
    ELSE IF Head(s) = "Z" THEN StripZ(Tail(s))
    ELSE IF s[Len(s)] = "Z" THEN StripZ(SubSeq(s, 1, Len(s) - 1))
    ELSE s

----------------------------------------------------------------------------
(* Timestamp values *)

\* a str value; `text` is the string and Chars(text) its characters
Str(text) == [type |-> "str", text |-> text]

None == [type |-> "NoneType", text |-> ""]

TS_10_00_15 == Str("2023-10-27T10:00:15Z")

TS_10_00_18 == Str("2023-10-27T10:00:18Z")

TS_10_01_05 == Str("2023-10-27T10:01:05Z")

TS_10_01_10 == Str("2023-10-27T10:01:10Z")

TS_10_02_30 == Str("2023-10-27T10:02:30Z")

TS_10_02_35 == Str("2023-10-27T10:02:35Z")

TS_10_05_00 == Str("2023-10-27T10:05:00Z")

TS_10_05_02 == Str("2023-10-27T10:05:02Z")

\* a space for the 'T' and no zone suffix: it parses, and as a string it sorts
\* before every 'T' timestamp of the same day
TS_SPACE == Str("2023-10-27 10:00:20")

\* cut short: fromisoformat raises ValueError
TS_TRUNC == Str("2023-10-27T10:00:1")

\* a UTC offset: fromisoformat returns an aware datetime
TS_AWARE == Str("2023-10-27T10:00:16+00:00")

\* the characters of each string the model uses
Chars(text) ==
    CASE text = "" -> <<>>
      [] text = "2023-10-27T10:00:15Z" ->
           <<"2","0","2","3","-","1","0","-","2","7","T","1","0",":","0","0",":","1","5","Z">>
      [] text = "2023-10-27T10:00:18Z" ->
           <<"2","0","2","3","-","1","0","-","2","7","T","1","0",":","0","0",":","1","8","Z">>
      [] text = "2023-10-27T10:01:05Z" ->
           <<"2","0","2","3","-","1","0","-","2","7","T","1","0",":","0","1",":","0","5","Z">>
      [] text = "2023-10-27T10:01:10Z" ->
           <<"2","0","2","3","-","1","0","-","2","7","T","1","0",":","0","1",":","1","0","Z">>
      [] text = "2023-10-27T10:02:30Z" ->
           <<"2","0","2","3","-","1","0","-","2","7","T","1","0",":","0","2",":","3","0","Z">>
      [] text = "2023-10-27T10:02:35Z" ->
           <<"2","0","2","3","-","1","0","-","2","7","T","1","0",":","0","2",":","3","5","Z">>
      [] text = "2023-10-27T10:05:00Z" ->
           <<"2","0","2","3","-","1","0","-","2","7","T","1","0",":","0","5",":","0","0","Z">>
      [] text = "2023-10-27T10:05:02Z" ->
           <<"2","0","2","3","-","1","0","-","2","7","T","1","0",":","0","5",":","0","2","Z">>
      [] text = "2023-10-27 10:00:20" ->
           <<"2","0","2","3","-","1","0","-","2","7"," ","1","0",":","0","0",":","2","0">>
      [] text = "2023-10-27T10:00:1" ->
           <<"2","0","2","3","-","1","0","-","2","7","T","1","0",":","0","0",":","1">>
      [] text = "2023-10-27T10:00:16+00:00" ->
           <<"2","0","2","3","-","1","0","-","2","7","T","1","0",":","0","0",":","1","6","+","0","0",":","0","0">>

\* the strings of the model
Texts ==
    { ts.text : ts \in {TS_10_00_15, TS_10_00_18, TS_10_01_05, TS_10_01_10,
                        TS_10_02_30, TS_10_02_35, TS_10_05_00, TS_10_05_02,
                        TS_SPACE, TS_TRUNC, TS_AWARE} }

----------------------------------------------------------------------------
(* datetime.fromisoformat on the formats YYYY-MM-DD?HH:MM:SS[(+|-)HH:MM] *)
(* (? is any one character).  These are the formats of the well-formed     *)
(* strings in Texts; the one other string there is rejected by Python's    *)
(* fromisoformat with ValueError, as it is here.                           *)

IsDigits(s, from, to) == \A i \in from..to : s[i] \in Digits

Num2(s, i) == 10 * DigitVal(s[i]) + DigitVal(s[i + 1])

Num4(s, i) == 100 * Num2(s, i) + Num2(s, i + 2)

IsLeap(y) == (y % 4 = 0) /\ ((y % 100 # 0) \/ (y % 400 = 0))

DaysInMonth(y, m) ==
    IF m = 2 THEN (IF IsLeap(y) THEN 29 ELSE 28)
    ELSE IF m \in {4, 6, 9, 11} THEN 30 ELSE 31

RECURSIVE DaysBeforeMonth(_, _)
DaysBeforeMonth(y, m) ==
    IF m = 1 THEN 0 ELSE DaysBeforeMonth(y, m - 1) + DaysInMonth(y, m - 1)

DaysBeforeYear(y) ==
    365 * (y - 1) + ((y - 1) \div 4) - ((y - 1) \div 100) + ((y - 1) \div 400)

\* date.toordinal()
ToOrdinal(y, m, d) == DaysBeforeYear(y) + DaysBeforeMonth(y, m) + d

\* the day time values are counted from
EpochOrdinal == ToOrdinal(2023, 10, 27)

ValueError == [ok |-> FALSE, error |-> "ValueError", t |-> 0, aware |-> FALSE]

DateTime(t, aware) == [ok |-> TRUE, error |-> "none", t |-> t, aware |-> aware]

\* the shape checks of the date and time fields
WellFormedIso(s) ==
    /\ Len(s) \in {19, 25}
    /\ IsDigits(s, 1, 4) /\ s[5] = "-" /\ IsDigits(s, 6, 7) /\ s[8] = "-"
    /\ IsDigits(s, 9, 10)
    /\ IsDigits(s, 12, 13) /\ s[14] = ":" /\ IsDigits(s, 15, 16) /\ s[17] = ":"
    /\ IsDigits(s, 18, 19)
    /\ Len(s) = 25 =>
          /\ s[20] \in {"+", "-"}
          /\ IsDigits(s, 21, 22) /\ s[23] = ":" /\ IsDigits(s, 24, 25)

\* the range checks of the datetime and timezone constructors
FieldsInRange(s) ==
    /\ Num4(s, 1) >= 1
    /\ Num2(s, 6) \in 1..12
    /\ Num2(s, 9) \in 1..DaysInMonth(Num4(s, 1), Num2(s, 6))
    /\ Num2(s, 12) <= 23 /\ Num2(s, 15) <= 59 /\ Num2(s, 18) <= 59
    /\ Len(s) = 25 => (Num2(s, 21) <= 23 /\ Num2(s, 24) <= 59)

\* seconds of the wall-clock reading since the epoch day
WallSeconds(s) ==
    (ToOrdinal(Num4(s, 1), Num2(s, 6), Num2(s, 9)) - EpochOrdinal) * 86400
        + Num2(s, 12) * 3600 + Num2(s, 15) * 60 + Num2(s, 18)

\* the UTC offset of an aware string, in seconds
OffsetSeconds(s) ==
    (IF s[20] = "-" THEN -1 ELSE 1) * (Num2(s, 21) * 3600 + Num2(s, 24) * 60)

\* datetime.fromisoformat(s): a naive datetime keeps its wall-clock reading, an
\* aware one is placed on the UTC line (aware datetimes subtract in UTC)
FromIsoFormat(s) ==
    IF ~WellFormedIso(s) THEN ValueError
    ELSE IF ~FieldsInRange(s) THEN ValueError
    ELSE IF Len(s) = 25 THEN DateTime(WallSeconds(s) - OffsetSeconds(s), TRUE)
    ELSE DateTime(WallSeconds(s), FALSE)

----------------------------------------------------------------------------
(* Events *)

BUFFER_START == "buffer_start"

BUFFER_END == "buffer_end"

Event(user, session, type, ts) ==
    [user_id |-> user, session_id |-> session, event_type |-> type, timestamp |-> ts]

\* the sample rows of lines 17-26, in their source order
fetch_raw_events_from_db ==
    << Event("user_1", "session_A", BUFFER_START, TS_10_00_15),
       Event("user_2", "session_B", BUFFER_START, TS_10_01_05),
       Event("user_1", "session_A", BUFFER_END,   TS_10_00_18),
       Event("user_3", "session_C", BUFFER_START, TS_10_02_30),
       Event("user_2", "session_B", BUFFER_END,   TS_10_01_10),
       Event("user_1", "session_A", BUFFER_START, TS_10_05_00),
       Event("user_3", "session_C", BUFFER_END,   TS_10_02_35),
       Event("user_1", "session_A", BUFFER_END,   TS_10_05_02) >>

\* the sessions the bounded inputs draw from
SessionPool == {"session_A", "session_B"}

UserOf(session) == IF session = "session_A" THEN "user_1" ELSE "user_2"

EventTypes == {BUFFER_START, BUFFER_END}

\* The events the bounded inputs draw from: session_A with every well-typed
\* timestamp shape (two zone-suffixed ones, one that sorts out of time order,
\* one malformed), session_B with the zone-suffixed ones, a buffer_end with an
\* aware timestamp and a buffer_start whose timestamp is None.
EventPool ==
    { Event(UserOf("session_A"), "session_A", ty, ts) :
        ty \in EventTypes, ts \in {TS_10_00_15, TS_10_00_18, TS_SPACE, TS_TRUNC} }
    \cup
    { Event(UserOf("session_B"), "session_B", ty, ts) :
        ty \in EventTypes, ts \in {TS_10_00_15, TS_10_00_18} }
    \cup
    { Event(UserOf("session_A"), "session_A", BUFFER_END, TS_AWARE),
      Event(UserOf("session_A"), "session_A", BUFFER_START, None) }

RECURSIVE SeqsUpTo(_, _)
SeqsUpTo(S, n) ==
    IF n = 0 THEN {<<>>}
    ELSE LET shorter == SeqsUpTo(S, n - 1)
         IN  shorter \cup {Append(q, e) : q \in {r \in shorter : Len(r) = n - 1}, e \in S}

\* every list of at most MaxEvents pool events, and the sample rows
Inputs == SeqsUpTo(EventPool, MaxEvents) \cup {fetch_raw_events_from_db}

----------------------------------------------------------------------------
(* line 43: sorted(raw_events, key=lambda x: x['timestamp']) *)

\* a < b is defined between two str keys only; None < x and x < None raise TypeError
Comparable(a, b) == a.type = "str" /\ b.type = "str"

\* the sort compares every element of a list of two or more with some other one
SortRaises(events) ==
    \E i, j \in 1..Len(events) :
        i # j /\ ~Comparable(events[i].timestamp, events[j].timestamp)

\* the order of the strings of the model, each pair compared once
StrLessTable ==
    [a \in Texts, b \in Texts |-> StrLess(Chars(a), Chars(b))]

\* key(a) < key(b)
KeyLess(a, b) == StrLessTable[a.timestamp.text, b.timestamp.text]

\* a variant of InsertByKey that places e before the elements of equal key
RECURSIVE InsertByKeyBeforeEqual(_, _)
InsertByKeyBeforeEqual(sorted, e) ==
    IF sorted = <<>> THEN <<e>>
    ELSE IF ~KeyLess(Head(sorted), e) THEN <<e>> \o sorted
    ELSE <<Head(sorted)>> \o InsertByKeyBeforeEqual(Tail(sorted), e)

\* e placed before the first element whose key is greater than e's
RECURSIVE InsertByKey(_, _)
InsertByKey(sorted, e) ==
    IF sorted = <<>> THEN <<e>>
    ELSE IF KeyLess(e, Head(sorted)) THEN <<e>> \o sorted
    ELSE <<Head(sorted)>> \o InsertByKey(Tail(sorted), e)

\* the stable ascending sort by key
RECURSIVE SortedByTimestamp(_)
SortedByTimestamp(events) ==
    IF events = <<>> THEN <<>>
    ELSE InsertByKey(SortedByTimestamp(SubSeq(events, 1, Len(events) - 1)),
                     events[Len(events)])

----------------------------------------------------------------------------
(* lines 49-79: the body of the loop *)

AttributeError == [ok |-> FALSE, error |-> "AttributeError", t |-> 0, aware |-> FALSE]

\* lines 55-56 on each string of the model, each parsed once:
\* .strip('Z'), then datetime.fromisoformat
ParsedTable ==
    [text \in Texts |-> FromIsoFormat(StripZ(Chars(text)))]

\* lines 55-56: event['timestamp'].strip('Z') has no meaning for a value that
\* is not a str
ParseTimestamp(ts) ==
    IF ts.type # "str" THEN AttributeError
    ELSE ParsedTable[ts.text]

\* line 57: except (ValueError, TypeError)
Caught(error) == error \in {"ValueError", "TypeError"}

\* line 69: naive and aware datetimes do not subtract
CanSubtract(end, start) == end.aware = start.aware

\* a variant of BufferDuration with the operands exchanged
BufferDurationReversed(end, start) == start.t - end.t

\* a variant of BufferDuration that clamps a negative duration to zero
BufferDurationClamped(end, start) == IF end.t < start.t THEN 0 ELSE end.t - start.t

\* line 69: (timestamp - buffer_start_time).total_seconds()
BufferDuration(end, start) == end.t - start.t

EmptyDict == [s \in {} |-> 0]

\* line 47: the default entry of aggregated_data
DefaultEntry == [total_buffer_duration_seconds |-> 0, buffer_events_count |-> 0]

\* a variant of RecordStart that keeps one pending start for all sessions
RecordStartShared(states, session_id, timestamp) ==
    [s \in DOMAIN states \cup {session_id} \cup SessionPool |-> timestamp]

\* a variant of RecordStart that keeps an earlier pending start of the session
RecordStartKeepFirst(states, session_id, timestamp) ==
    [s \in DOMAIN states \cup {session_id} |->
        IF s \in DOMAIN states THEN states[s] ELSE timestamp]

\* line 63: session_states[session_id] = timestamp
RecordStart(states, session_id, timestamp) ==
    [s \in DOMAIN states \cup {session_id} |->
        IF s = session_id THEN timestamp ELSE states[s]]

\* a variant of ClearStart that leaves the pending start in place
ClearStartKeep(states, session_id) == states

\* line 76: del session_states[session_id]
ClearStart(states, session_id) ==
    [s \in DOMAIN states \ {session_id} |-> states[s]]

\* a variant of AddInterval that assigns the duration instead of adding it
AddIntervalOverwrite(data, session_id, duration) ==
    LET old == IF session_id \in DOMAIN data THEN data[session_id] ELSE DefaultEntry
    IN  [s \in DOMAIN data \cup {session_id} |->
            IF s = session_id
            THEN [total_buffer_duration_seconds |-> duration,
                  buffer_events_count |-> old.buffer_events_count + 1]
            ELSE data[s]]

\* lines 72-73: aggregated_data[session_id], created on first use, += duration and += 1
AddInterval(data, session_id, duration) ==
    LET old == IF session_id \in DOMAIN data THEN data[session_id] ELSE DefaultEntry
    IN  [s \in DOMAIN data \cup {session_id} |->
            IF s = session_id
            THEN [total_buffer_duration_seconds |->
                      old.total_buffer_duration_seconds + duration,
                  buffer_events_count |-> old.buffer_events_count + 1]
            ELSE data[s]]

Diagnostic(kind, event) == [kind |-> kind, event |-> event]

\* the local state of one call
Locals(states, data, out, error) ==
    [session_states |-> states, aggregated_data |-> data, stdout |-> out, exc |-> error]

\* a variant of WarnUnmatched that reads aggregated_data[session_id], which
\* makes the defaultdict create the entry
WarnUnmatchedTouching(st, event) ==
    [st EXCEPT
       !.stdout = Append(@, Diagnostic("unmatched_end", event)),
       !.aggregated_data =
           [s \in DOMAIN @ \cup {event.session_id} |->
               IF s \in DOMAIN @ THEN @[s] ELSE DefaultEntry]]

\* lines 77-79: the warning for a buffer_end without a pending start
WarnUnmatched(st, event) ==
    [st EXCEPT !.stdout = Append(@, Diagnostic("unmatched_end", event))]

\* one iteration of the loop of line 49 on `event`
ProcessEvent(st, event) ==
    LET session_id == event.session_id
        timestamp  == ParseTimestamp(event.timestamp)
    IN  IF ~timestamp.ok
        THEN IF Caught(timestamp.error)
             THEN [st EXCEPT !.stdout = Append(@, Diagnostic("invalid_timestamp", event))]
             ELSE [st EXCEPT !.exc = timestamp.error]
        ELSE IF event.event_type = BUFFER_START
        THEN [st EXCEPT !.session_states = RecordStart(@, session_id, timestamp)]
        ELSE IF event.event_type = BUFFER_END
        THEN IF session_id \in DOMAIN st.session_states
             THEN LET buffer_start_time == st.session_states[session_id]
                  IN  IF ~CanSubtract(timestamp, buffer_start_time)
                      THEN [st EXCEPT !.exc = "TypeError"]
                      ELSE [st EXCEPT
                              !.aggregated_data =
                                  AddInterval(@, session_id,
                                              BufferDuration(timestamp, buffer_start_time)),
                              !.session_states = ClearStart(@, session_id)]
             ELSE WarnUnmatched(st, event)
        ELSE st

\* the loop of line 49 over `events`, left at the first exception
RECURSIVE RunLoop(_, _)
RunLoop(st, events) ==
    IF events = <<>> \/ st.exc # "none" THEN st
    ELSE RunLoop(ProcessEvent(st, Head(events)), Tail(events))

\* the whole call: what it returns, or the exception that leaves it
aggregate_buffering_data(events) ==
    IF SortRaises(events)
    THEN Locals(EmptyDict, EmptyDict, <<>>, "TypeError")
    ELSE RunLoop(Locals(EmptyDict, EmptyDict, <<>>, "none"), SortedByTimestamp(events))

----------------------------------------------------------------------------
(* lines 83-117: generate_summary_metrics *)

RECURSIVE Gcd(_, _)
Gcd(a, b) == IF b = 0 THEN a ELSE Gcd(b, a % b)

Abs(n) == IF n < 0 THEN -n ELSE n

\* a number of the summary, as an exact fraction in lowest terms
Number(num, den) ==
    LET g == Gcd(Abs(num), den)
    IN  [error |-> "none", num |-> num \div g, den |-> den \div g]

ZeroDivisionError == [error |-> "ZeroDivisionError", num |-> 0, den |-> 0]

\* a / b of Python
TrueDiv(a, b) ==
    IF b = 0 THEN ZeroDivisionError
    ELSE IF b < 0 THEN Number(-a, -b)
    ELSE Number(a, b)

\* lines 102-105
AvgPerSession(total, sessions) ==
    IF sessions > 0 THEN TrueDiv(total, sessions) ELSE Number(0, 1)

\* a variant of AvgPerEvent without the guard
AvgPerEventUnguarded(total, events) == TrueDiv(total, events)

\* lines 106-109
AvgPerEvent(total, events) ==
    IF events > 0 THEN TrueDiv(total, events) ELSE Number(0, 1)

\* a variant of SumItems that counts one event per entry
RECURSIVE SumItemsOnePerEntry(_, _, _)
SumItemsOnePerEntry(data, keys, acc) ==
    IF keys = {} THEN acc
    ELSE LET k == CHOOSE x \in keys : TRUE
         IN  SumItemsOnePerEntry(data, keys \ {k},
                      [time   |-> acc.time + data[k].total_buffer_duration_seconds,
                       events |-> acc.events + 1])

\* lines 97-99: the two running sums over aggregated_data.items()
RECURSIVE SumItems(_, _, _)
SumItems(data, keys, acc) ==
    IF keys = {} THEN acc
    ELSE LET k == CHOOSE x \in keys : TRUE
         IN  SumItems(data, keys \ {k},
                      [time   |-> acc.time + data[k].total_buffer_duration_seconds,
                       events |-> acc.events + data[k].buffer_events_count])

generate_summary_metrics(data) ==
    LET sessions_with_buffering == Cardinality(DOMAIN data)
        sums == SumItems(data, DOMAIN data, [time |-> 0, events |-> 0])
        avg_buffer_time_per_session == AvgPerSession(sums.time, sessions_with_buffering)
        avg_buffer_time_per_event == AvgPerEvent(sums.time, sums.events)
    IN  [exc |-> IF avg_buffer_time_per_session.error # "none"
                 THEN avg_buffer_time_per_session.error
                 ELSE avg_buffer_time_per_event.error,
         total_sessions_with_buffering |-> sessions_with_buffering,
         total_buffer_time_seconds |-> sums.time,
         total_buffer_events |-> sums.events,
         average_buffer_time_per_session_seconds |-> avg_buffer_time_per_session,
         average_buffer_time_per_event_seconds |-> avg_buffer_time_per_event]

NoSummary ==
    [exc |-> "none",
     total_sessions_with_buffering |-> -1,
     total_buffer_time_seconds |-> 0,
     total_buffer_events |-> -1,
     average_buffer_time_per_session_seconds |-> ZeroDivisionError,
     average_buffer_time_per_event_seconds |-> ZeroDivisionError]

----------------------------------------------------------------------------
(* The pipeline of lines 119-136 as a state machine *)

Init ==
    /\ raw_events \in Inputs
    /\ sorted_events = <<>>
    /\ idx = 0
    /\ session_states = EmptyDict
    /\ aggregated_data = EmptyDict
    /\ stdout = <<>>
    /\ pc = "sort"
    /\ exc = "none"
    /\ summary = NoSummary

\* line 43
SortEvents ==
    /\ pc = "sort"
    /\ sorted_events' = IF SortRaises(raw_events) THEN <<>> ELSE SortedByTimestamp(raw_events)
    /\ idx' = IF SortRaises(raw_events) THEN 0 ELSE 1
    /\ pc' = IF SortRaises(raw_events) THEN "raised" ELSE "loop"
    /\ exc' = IF SortRaises(raw_events) THEN "TypeError" ELSE "none"
    /\ UNCHANGED <<raw_events, session_states, aggregated_data, stdout, summary>>

\* lines 49-79, one event
LoopStep ==
    /\ pc = "loop"
    /\ idx <= Len(sorted_events)
    /\ LET st == ProcessEvent(Locals(session_states, aggregated_data, stdout, "none"),
                              sorted_events[idx])
       IN  /\ session_states' = st.session_states
           /\ aggregated_data' = st.aggregated_data
           /\ stdout' = st.stdout
           /\ exc' = st.exc
           /\ pc' = IF st.exc = "none" THEN "loop" ELSE "raised"
           /\ idx' = IF st.exc = "none" THEN idx + 1 ELSE idx
    /\ UNCHANGED <<raw_events, sorted_events, summary>>

\* line 81: the loop is over, dict(aggregated_data) is returned and the
\* pending starts, local to the call, are gone
ReturnAggregated ==
    /\ pc = "loop"
    /\ idx > Len(sorted_events)
    /\ pc' = "returned"
    /\ session_states' = EmptyDict
    /\ UNCHANGED <<raw_events, sorted_events, idx, aggregated_data, stdout, exc, summary>>

\* line 136: summary = generate_summary_metrics(session_metrics)
Summarize ==
    /\ pc = "returned"
    /\ summary' = generate_summary_metrics(aggregated_data)
    /\ exc' = summary'.exc
    /\ pc' = IF summary'.exc = "none" THEN "done" ELSE "raised"
    /\ UNCHANGED <<raw_events, sorted_events, idx, session_states, aggregated_data, stdout>>

Next == SortEvents \/ LoopStep \/ ReturnAggregated \/ Summarize

Spec == Init /\ [][Next]_vars

----------------------------------------------------------------------------
(* generate_summary_metrics called directly on a bounded mapping *)

Entries ==
    [total_buffer_duration_seconds : (-MaxTotal)..MaxTotal,
     buffer_events_count : 0..MaxCount]

Mappings == UNION {[keys -> Entries] : keys \in SUBSET SessionPool}

SummaryInit ==
    /\ raw_events = <<>>
    /\ sorted_events = <<>>
    /\ idx = 1
    /\ session_states = EmptyDict
    /\ aggregated_data \in Mappings
    /\ stdout = <<>>
    /\ pc = "returned"
    /\ exc = "none"
    /\ summary = NoSummary

SummaryNext == Summarize

SummarySpec == SummaryInit /\ [][SummaryNext]_vars

----------------------------------------------------------------------------
(* Vocabulary of the properties *)

AllSessions == {"session_A", "session_B", "session_C"}

\* the call of aggregate_buffering_data left with an exception
AggregateRaised == pc = "raised" /\ summary = NoSummary

\* the call of aggregate_buffering_data has returned its mapping
AggregateReturned == pc \in {"returned", "done"}

Parses(e) == ParseTimestamp(e.timestamp).ok

TimeOf(e) == ParseTimestamp(e.timestamp).t

\* the events the loop has processed to completion so far, in processing order
Processed ==
    IF pc = "sort" \/ sorted_events = <<>> THEN <<>>
    ELSE SubSeq(sorted_events, 1, idx - 1)

\* the events of session s in seq whose timestamp parses
OfSession(seq, s) ==
    LET Keep(e) == e.session_id = s /\ Parses(e)
    IN  SelectSeq(seq, Keep)

TotalOf(data, s) ==
    IF s \in DOMAIN data THEN data[s].total_buffer_duration_seconds ELSE 0

CountOf(data, s) ==
    IF s \in DOMAIN data THEN data[s].buffer_events_count ELSE 0

\* this step is one completed iteration of the loop, on event sorted_events[idx]
IterationDone == pc = "loop" /\ idx <= Len(sorted_events) /\ idx' = idx + 1

CurrentEvent == sorted_events[idx]

----------------------------------------------------------------------------
(* C1 *)

\* C1 (as claimed): aggregate_buffering_data never propagates an exception to
\* its caller, whatever the timestamps of the input are.
C1_NeverPropagates == ~AggregateRaised

----------------------------------------------------------------------------
(* C2 *)

\* the events of the current event's session processed before it
PriorOfCurrent == OfSession(Processed, CurrentEvent.session_id)

\* the current event is a buffer_end that follows two buffer_start events of its
\* session with no buffer_end of the session in between
EndAfterTwoStarts ==
    /\ CurrentEvent.event_type = BUFFER_END
    /\ Parses(CurrentEvent)
    /\ Len(PriorOfCurrent) >= 2
    /\ PriorOfCurrent[Len(PriorOfCurrent)].event_type = BUFFER_START
    /\ PriorOfCurrent[Len(PriorOfCurrent) - 1].event_type = BUFFER_START

\* C2: last start wins.  A buffer_end processed after two buffer_start events
\* of its session with no buffer_end between them adds exactly (end time - time
\* of the second start) to the session's total and exactly 1 to its count, and
\* processing a buffer_start never changes any total or count, so the first
\* start contributes nothing.
C2_LastStartWins ==
    [][ /\ (IterationDone /\ EndAfterTwoStarts) =>
            LET s == CurrentEvent.session_id
                second == PriorOfCurrent[Len(PriorOfCurrent)]
            IN  /\ TotalOf(aggregated_data', s) - TotalOf(aggregated_data, s)
                       = TimeOf(CurrentEvent) - TimeOf(second)
                /\ CountOf(aggregated_data', s) = CountOf(aggregated_data, s) + 1
        /\ (IterationDone /\ CurrentEvent.event_type = BUFFER_START) =>
               aggregated_data' = aggregated_data
      ]_vars

\* C2 witness: the call has returned after pairing a buffer_end with the second
\* of two starts whose times differ
C2_Witness ==
    /\ AggregateReturned
    /\ \E s \in AllSessions :
         LET evs == OfSession(sorted_events, s)
         IN  /\ Len(evs) = 3
             /\ evs[1].event_type = BUFFER_START
             /\ evs[2].event_type = BUFFER_START
             /\ evs[3].event_type = BUFFER_END
             /\ TimeOf(evs[1]) # TimeOf(evs[2])
             /\ CountOf(aggregated_data, s) = 1

----------------------------------------------------------------------------
(* C3 *)

\* the positions of seq (one session's events) that close an interval: a
\* buffer_end directly after a buffer_start
Closers(seq) ==
    {k \in 2..Len(seq) :
        seq[k].event_type = BUFFER_END /\ seq[k - 1].event_type = BUFFER_START}

RECURSIVE SumDurations(_, _)
SumDurations(seq, ks) ==
    IF ks = {} THEN 0
    ELSE LET k == CHOOSE x \in ks : TRUE
         IN  (TimeOf(seq[k]) - TimeOf(seq[k - 1])) + SumDurations(seq, ks \ {k})

\* C3: at every point of the pass and in the returned mapping, a session's
\* total is the sum of (end time - start time) over its paired intervals (a
\* buffer_end and the buffer_start processed directly before it in its session)
\* and its count is their number; a session without such an interval has no
\* entry, so every entry has a count of at least 1.
C3_PairedIntervalsOnly ==
    (pc = "loop" \/ AggregateReturned) =>
        \A s \in AllSessions :
            LET evs == OfSession(Processed, s)
            IN  /\ TotalOf(aggregated_data, s) = SumDurations(evs, Closers(evs))
                /\ CountOf(aggregated_data, s) = Cardinality(Closers(evs))
                /\ s \in DOMAIN aggregated_data <=> Closers(evs) # {}
                /\ s \in DOMAIN aggregated_data =>
                       aggregated_data[s].buffer_events_count >= 1

\* C3 witness: a returned mapping with an entry for one session and none for
\* another session that had only orphan events
C3_Witness ==
    /\ AggregateReturned
    /\ \E s, o \in AllSessions :
         /\ s \in DOMAIN aggregated_data
         /\ o \notin DOMAIN aggregated_data
         /\ OfSession(sorted_events, o) # <<>>

----------------------------------------------------------------------------
(* C4 *)

\* the events of session s in seq, parseable or not, in their order
AllOfSession(seq, s) ==
    LET Keep(e) == e.session_id = s
    IN  SelectSeq(seq, Keep)

\* every merge of the sequences parts[s] that keeps the order of each
RECURSIVE Merges(_)
Merges(parts) ==
    IF \A s \in DOMAIN parts : parts[s] = <<>> THEN {<<>>}
    ELSE UNION { { <<Head(parts[s])>> \o rest :
                     rest \in Merges([parts EXCEPT ![s] = Tail(parts[s])]) } :
                 s \in {x \in DOMAIN parts : parts[x] # <<>>} }

\* every input with the events of seq, each session's events in the order they
\* have in seq, the sessions interleaved in any way
Interleavings(seq) == Merges([s \in AllSessions |-> AllOfSession(seq, s)])

\* C4: order-independence of session pairing.  When the call returns, the call
\* on every other interleaving of the same per-session event sequences returns
\* too, with the same aggregate for every session.
C4_InterleavingIndependent ==
    AggregateReturned =>
        \A q \in Interleavings(raw_events) :
            LET other == aggregate_buffering_data(q)
            IN  /\ other.exc = "none"
                /\ other.aggregated_data = aggregated_data

\* C4 witness: a returned mapping with an entry, for an input that has another
\* interleaving which is even processed in a different order
C4_Witness ==
    /\ AggregateReturned
    /\ aggregated_data # EmptyDict
    /\ \E q \in Interleavings(raw_events) :
          q # raw_events /\ SortedByTimestamp(q) # sorted_events

----------------------------------------------------------------------------
(* C5 *)

AwareOf(e) == ParseTimestamp(e.timestamp).aware

\* C5 (as claimed): the processing order is chronological.  Of two events
\* whose timestamps parse to comparable time values, the one processed first
\* does not have the later time value.
C5_ChronologicalOrder ==
    (pc = "loop" \/ AggregateReturned) =>
        \A i, j \in 1..Len(sorted_events) :
            ( /\ i < j
              /\ Parses(sorted_events[i]) /\ Parses(sorted_events[j])
              /\ AwareOf(sorted_events[i]) = AwareOf(sorted_events[j]) )
            => TimeOf(sorted_events[i]) <= TimeOf(sorted_events[j])

----------------------------------------------------------------------------
(* C6 *)

\* the current event is a buffer_end whose session has a pending start with a
\* later time value
EndBeforePendingStart ==
    /\ CurrentEvent.event_type = BUFFER_END
    /\ Parses(CurrentEvent)
    /\ CurrentEvent.session_id \in DOMAIN session_states
    /\ session_states[CurrentEvent.session_id].aware = AwareOf(CurrentEvent)
    /\ session_states[CurrentEvent.session_id].t > TimeOf(CurrentEvent)

\* C6: negative-duration pass-through.  A buffer_end paired with a pending
\* start of a later time value adds the negative value (end time - start time)
\* unchanged to the session's total and 1 to its count.
C6_NegativePassThrough ==
    [][ (pc = "loop" /\ idx <= Len(sorted_events) /\ EndBeforePendingStart) =>
            LET s == CurrentEvent.session_id
                d == TimeOf(CurrentEvent) - session_states[s].t
            IN  /\ IterationDone
                /\ d < 0
                /\ TotalOf(aggregated_data', s) = TotalOf(aggregated_data, s) + d
                /\ CountOf(aggregated_data', s) = CountOf(aggregated_data, s) + 1
      ]_vars

\* C6 witness: a returned mapping with a negative total
C6_Witness ==
    /\ AggregateReturned
    /\ \E s \in DOMAIN aggregated_data :
          aggregated_data[s].total_buffer_duration_seconds < 0

----------------------------------------------------------------------------
(* C7 *)

\* seq without the events whose timestamp fails to parse
WithoutMalformed(seq) == SelectSeq(seq, Parses)

\* C7 (as claimed): a malformed-timestamp event is skipped with no state
\* mutation.  Whenever the call on the input without its malformed events
\* returns a mapping, the call on the input returns that mapping.
C7_MalformedSkipped ==
    (AggregateReturned \/ AggregateRaised) =>
        LET clean == aggregate_buffering_data(WithoutMalformed(raw_events))
        IN  clean.exc = "none" =>
                /\ AggregateReturned
                /\ aggregated_data = clean.aggregated_data

----------------------------------------------------------------------------
(* C8 *)

Zero(x) == x.error = "none" /\ x.num = 0

\* x is the quotient a / b
IsQuotient(x, a, b) == x.error = "none" /\ x.den > 0 /\ x.num * b = a * x.den

\* C8: zero-division safety.  generate_summary_metrics raises nothing; the
\* average per session is total time / sessions when there is a session and 0
\* otherwise, the average per event is total time / events when events > 0 and
\* 0 otherwise; the empty mapping yields five zeros.
C8_ZeroDivisionSafe ==
    /\ pc # "raised"
    /\ pc = "done" =>
         LET n == summary.total_sessions_with_buffering
             t == summary.total_buffer_time_seconds
             e == summary.total_buffer_events
             per_session == summary.average_buffer_time_per_session_seconds
             per_event == summary.average_buffer_time_per_event_seconds
         IN  /\ summary.exc = "none"
             /\ IF n >= 1 THEN IsQuotient(per_session, t, n) ELSE Zero(per_session)
             /\ IF e > 0 THEN IsQuotient(per_event, t, e) ELSE Zero(per_event)
             /\ aggregated_data = EmptyDict =>
                    /\ n = 0 /\ t = 0 /\ e = 0
                    /\ Zero(per_session) /\ Zero(per_event)

\* C8 witness: a summary of a non-empty mapping whose entries all have count 0
\* and whose total time is not 0
C8_Witness ==
    /\ pc = "done"
    /\ aggregated_data # EmptyDict
    /\ \A s \in DOMAIN aggregated_data : aggregated_data[s].buffer_events_count = 0
    /\ summary.total_buffer_time_seconds # 0

----------------------------------------------------------------------------
(* C9 *)

\* C9: the call of generate_summary_metrics returns the number of entries of
\* its input, the sum of their totals and the sum of their counts, and leaves
\* the input mapping as it was.
C9_TotalsAndFrame ==
    [][ pc = "returned" =>
          /\ DOMAIN aggregated_data \subseteq AllSessions
          /\ summary'.total_sessions_with_buffering
               = Cardinality({s \in AllSessions : s \in DOMAIN aggregated_data})
          /\ summary'.total_buffer_time_seconds
               = TotalOf(aggregated_data, "session_A")
                   + TotalOf(aggregated_data, "session_B")
                   + TotalOf(aggregated_data, "session_C")
          /\ summary'.total_buffer_events
               = CountOf(aggregated_data, "session_A")
                   + CountOf(aggregated_data, "session_B")
                   + CountOf(aggregated_data, "session_C")
          /\ aggregated_data' = aggregated_data
      ]_vars

\* C9 witness: a summary of two entries with different totals and more than
\* one event each on average
C9_Witness ==
    /\ pc = "done"
    /\ \E s, o \in DOMAIN aggregated_data :
          /\ s # o
          /\ aggregated_data[s].total_buffer_duration_seconds
               # aggregated_data[o].total_buffer_duration_seconds
    /\ summary.total_sessions_with_buffering = 2
    /\ summary.total_buffer_events > 2

----------------------------------------------------------------------------
(* C10 *)

SampleAggregates ==
    [s \in AllSessions |->
        IF s = "session_A"
        THEN [total_buffer_duration_seconds |-> 5, buffer_events_count |-> 2]
        ELSE [total_buffer_duration_seconds |-> 5, buffer_events_count |-> 1]]

SampleSummary ==
    [exc |-> "none",
     total_sessions_with_buffering |-> 3,
     total_buffer_time_seconds |-> 15,
     total_buffer_events |-> 4,
     average_buffer_time_per_session_seconds |-> [error |-> "none", num |-> 5, den |-> 1],
     average_buffer_time_per_event_seconds |-> [error |-> "none", num |-> 15, den |-> 4]]

\* C10: on the sample rows in their source order nothing is raised, the mapping
\* returned is session_A -> (5 s, 2), session_B -> (5 s, 1), session_C -> (5 s, 1)
\* and nothing else, and the summary is 3 sessions, 15 s, 4 events, 5 s per
\* session and 15/4 s per event.
C10_SampleScenario ==
    raw_events = fetch_raw_events_from_db =>
        /\ pc # "raised"
        /\ AggregateReturned => aggregated_data = SampleAggregates
        /\ pc = "done" => summary = SampleSummary

\* C10 witness: the pipeline has finished on the sample rows, which it had to
\* reorder
C10_Witness ==
    /\ raw_events = fetch_raw_events_from_db
    /\ sorted_events # raw_events
    /\ pc = "done"

----------------------------------------------------------------------------
(* C11 *)

\* seq is in ascending order of the sort key: no event has a smaller key than
\* an event before it
Ascending(seq) ==
    \A i, j \in 1..Len(seq) : i < j => ~KeyLess(seq[j], seq[i])

\* the call has got past the sort of line 43
PastSort == pc = "loop" \/ AggregateReturned \/ (pc = "raised" /\ sorted_events # <<>>)

\* C11: idempotence under re-sorting.  An input that is already in ascending
\* order is processed in its own order, the sorted list is left as it is by a
\* second sort, and the call on the sorted list ends as the call on the input
\* does: with the same mapping, or with the same exception.
C11_ResortIdempotent ==
    PastSort =>
        /\ Ascending(raw_events) => sorted_events = raw_events
        /\ Ascending(sorted_events)
        /\ SortedByTimestamp(sorted_events) = sorted_events
        /\ (AggregateReturned \/ pc = "raised") =>
              LET again == aggregate_buffering_data(sorted_events)
              IN  /\ again.exc = (IF AggregateReturned THEN "none" ELSE exc)
                  /\ AggregateReturned => again.aggregated_data = aggregated_data

\* C11 witness: a returned mapping with an entry, for an input the sort had to
\* reorder and whose sorted list holds two events of equal key
C11_Witness ==
    /\ AggregateReturned
    /\ aggregated_data # EmptyDict
    /\ sorted_events # raw_events
    /\ \E i \in 1..(Len(sorted_events) - 1) :
          /\ ~KeyLess(sorted_events[i], sorted_events[i + 1])
          /\ sorted_events[i] # sorted_events[i + 1]

----------------------------------------------------------------------------
(* C12 *)

Last(seq) == seq[Len(seq)]

\* the loop is about to process the event sorted_events[idx]
AtEvent == pc = "loop" /\ idx <= Len(sorted_events)

\* the current event is a buffer_end with a timestamp that parses
AtParsedEnd ==
    AtEvent /\ CurrentEvent.event_type = BUFFER_END /\ Parses(CurrentEvent)

\* a session has a pending start exactly when the last event processed for it
\* is a buffer_start, and the pending start is that one
PendingIsLatestStart ==
    \A s \in AllSessions :
        LET evs == OfSession(Processed, s)
        IN  /\ s \in DOMAIN session_states
                <=> (evs # <<>> /\ Last(evs).event_type = BUFFER_START)
            /\ s \in DOMAIN session_states =>
                   session_states[s].t = TimeOf(Last(evs))

\* C12: a buffer_end processed for a session with a pending start adds
\* (end time - start time) to the session's total, 1 to its count, and removes
\* the pending start; a buffer_end that directly follows a buffer_end of its
\* session finds no pending start and is skipped as unmatched; throughout the
\* pass a session has at most one pending start, the latest one.
C12_StartConsumedOnce ==
    [][ /\ pc = "loop" => PendingIsLatestStart
        /\ ( /\ IterationDone /\ AtParsedEnd
             /\ CurrentEvent.session_id \in DOMAIN session_states ) =>
               LET s == CurrentEvent.session_id
               IN  /\ TotalOf(aggregated_data', s)
                        = TotalOf(aggregated_data, s)
                            + (TimeOf(CurrentEvent) - session_states[s].t)
                   /\ CountOf(aggregated_data', s) = CountOf(aggregated_data, s) + 1
                   /\ s \notin DOMAIN session_states'
        /\ ( /\ AtParsedEnd
             /\ PriorOfCurrent # <<>>
             /\ Last(PriorOfCurrent).event_type = BUFFER_END ) =>
               /\ CurrentEvent.session_id \notin DOMAIN session_states
               /\ IterationDone
               /\ aggregated_data' = aggregated_data
               /\ stdout' = Append(stdout, Diagnostic("unmatched_end", CurrentEvent))
      ]_vars

\* C12 witness: a session's events were a start and two ends; the call has
\* returned one interval for it and warned once
C12_Witness ==
    /\ AggregateReturned
    /\ \E s \in AllSessions :
         LET evs == OfSession(sorted_events, s)
         IN  /\ Len(evs) = 3
             /\ evs[1].event_type = BUFFER_START
             /\ evs[2].event_type = BUFFER_END
             /\ evs[3].event_type = BUFFER_END
             /\ CountOf(aggregated_data, s) = 1
             /\ stdout = <<Diagnostic("unmatched_end", evs[3])>>

----------------------------------------------------------------------------
(* C13 *)

UnmatchedWarnings == SelectSeq(stdout, LAMBDA d : d.kind = "unmatched_end")

\* C13: a buffer_end with a parseable timestamp whose session has no pending
\* start is skipped: the iteration completes, the loop goes on, and the
\* pending starts and the totals and counts of every session (the set of
\* sessions that have an entry included) are what they were.
C13_UnmatchedEndChangesNothing ==
    [][ (AtParsedEnd /\ CurrentEvent.session_id \notin DOMAIN session_states) =>
            /\ IterationDone
            /\ pc' = "loop"
            /\ sorted_events' = sorted_events
            /\ session_states' = session_states
            /\ aggregated_data' = aggregated_data
            /\ DOMAIN aggregated_data' = DOMAIN aggregated_data
      ]_vars

\* C13 witness: an unmatched buffer_end of a session without an entry was
\* skipped, a later interval was still counted, and the session of the
\* unmatched end has no entry in the returned mapping
C13_Witness ==
    /\ AggregateReturned
    /\ aggregated_data # EmptyDict
    /\ UnmatchedWarnings # <<>>
    /\ UnmatchedWarnings[1].event = sorted_events[1]
    /\ sorted_events[1].session_id \notin DOMAIN aggregated_data

----------------------------------------------------------------------------
(* C14 *)

\* the entry of session s in a mapping, or "absent"
EntryOf(data, s) == IF s \in DOMAIN data THEN data[s] ELSE "absent"

\* C14: once the call has ended, for every session s the call on the events
\* of s alone ends the same way (returns or raises), and when they return,
\* they return the same entry for s (or both none).
C14_SessionScoped ==
    (AggregateReturned \/ AggregateRaised) =>
        \A s \in AllSessions :
            LET alone == aggregate_buffering_data(AllOfSession(raw_events, s))
            IN  /\ alone.exc = "none" <=> AggregateReturned
                /\ AggregateReturned =>
                       EntryOf(alone.aggregated_data, s) = EntryOf(aggregated_data, s)

----------------------------------------------------------------------------
(* C15 *)

\* the events of seq whose timestamp is ts, in the order of seq
WithTimestamp(seq, ts) ==
    LET Keep(e) == e.timestamp = ts
    IN  SelectSeq(seq, Keep)

\* the input is two events of one session with one parseable timestamp,
\* of types first and second
TiedPair(first, second) ==
    /\ Len(raw_events) = 2
    /\ raw_events[1].session_id = raw_events[2].session_id
    /\ raw_events[1].timestamp = raw_events[2].timestamp
    /\ Parses(raw_events[1])
    /\ raw_events[1].event_type = first
    /\ raw_events[2].event_type = second

LoopFinished == pc = "loop" /\ idx > Len(sorted_events)

\* C15: events with equal timestamps are processed in their input order; a
\* start followed in the input by an end of the same session with the same
\* timestamp gives that session one interval of duration 0, and the same two
\* events in the opposite order give no interval: the end is reported as
\* unmatched and the start is still pending when the loop finishes.
C15_TiesInInputOrder ==
    /\ PastSort =>
          \A i \in 1..Len(raw_events) :
              WithTimestamp(sorted_events, raw_events[i].timestamp)
                  = WithTimestamp(raw_events, raw_events[i].timestamp)
    /\ (TiedPair(BUFFER_START, BUFFER_END) /\ (LoopFinished \/ AggregateReturned)) =>
          /\ aggregated_data =
                [s \in {raw_events[1].session_id} |->
                    [total_buffer_duration_seconds |-> 0, buffer_events_count |-> 1]]
          /\ stdout = <<>>
          /\ LoopFinished => session_states = EmptyDict
    /\ (TiedPair(BUFFER_END, BUFFER_START) /\ (LoopFinished \/ AggregateReturned)) =>
          /\ aggregated_data = EmptyDict
          /\ stdout = <<Diagnostic("unmatched_end", raw_events[1])>>
          /\ LoopFinished => DOMAIN session_states = {raw_events[1].session_id}

\* C15 witness: the call on a start and an end with the same timestamp, in
\* this order, has returned one interval of duration 0
C15_Witness ==
    /\ TiedPair(BUFFER_START, BUFFER_END)
    /\ AggregateReturned
    /\ CountOf(aggregated_data, raw_events[1].session_id) = 1
    /\ TotalOf(aggregated_data, raw_events[1].session_id) = 0

\* the opposite input order, at the end of the loop
C15_ReversedPending ==
    /\ TiedPair(BUFFER_END, BUFFER_START)
    /\ LoopFinished
    /\ raw_events[1].session_id \in DOMAIN session_states

----------------------------------------------------------------------------
(* C16 *)

InvalidWarnings == SelectSeq(stdout, LAMBDA d : d.kind = "invalid_timestamp")

\* the event at position n of seq is a parseable buffer_end that finds no
\* pending start: no parseable event of its session precedes it, or the last
\* one is a buffer_end
UnmatchedAt(seq, n) ==
    LET prior == OfSession(SubSeq(seq, 1, n - 1), seq[n].session_id)
    IN  /\ Parses(seq[n])
        /\ seq[n].event_type = BUFFER_END
        /\ (prior = <<>> \/ Last(prior).event_type = BUFFER_END)

\* the diagnostics owed for the first n events of seq, in order
RECURSIVE DiagnosticsUpTo(_, _)
DiagnosticsUpTo(seq, n) ==
    IF n = 0 THEN <<>>
    ELSE DiagnosticsUpTo(seq, n - 1) \o
         ( IF ~Parses(seq[n]) THEN <<Diagnostic("invalid_timestamp", seq[n])>>
           ELSE IF UnmatchedAt(seq, n) THEN <<Diagnostic("unmatched_end", seq[n])>>
           ELSE <<>> )

OnlyParseableStarts ==
    \A i \in 1..Len(raw_events) :
        Parses(raw_events[i]) /\ raw_events[i].event_type = BUFFER_START

\* C16: once the call has ended, one diagnostic has been printed for each
\* event of the input whose timestamp fails to parse and one for each
\* buffer_end processed with no pending start, and nothing else; an input of
\* starts only returns an empty mapping with no diagnostic and no error.
C16_DiagnosticsComplete ==
    (AggregateReturned \/ AggregateRaised) =>
        /\ Len(InvalidWarnings)
              = Cardinality({i \in 1..Len(raw_events) : ~Parses(raw_events[i])})
        /\ UnmatchedWarnings
              = SelectSeq(DiagnosticsUpTo(Processed, Len(Processed)),
                          LAMBDA d : d.kind = "unmatched_end")
        /\ OnlyParseableStarts =>
              AggregateReturned /\ aggregated_data = EmptyDict /\ stdout = <<>>

----------------------------------------------------------------------------
(* C17 *)

\* every timestamp of the input parses, and the order of the sort key never
\* contradicts the order of the parsed times
OrderAgrees ==
    /\ \A i \in 1..Len(raw_events) : Parses(raw_events[i])
    /\ \A i, j \in 1..Len(raw_events) :
          KeyLess(raw_events[i], raw_events[j])
              => TimeOf(raw_events[i]) <= TimeOf(raw_events[j])

NoNegativeTotal(data) == \A s \in AllSessions : TotalOf(data, s) >= 0

\* C17: when every timestamp parses and the sort order agrees with the time
\* order, every completed iteration adds a duration >= 0 (no total goes
\* down) and no session's total is ever negative.
C17_NonNegativeDurations ==
    [][ OrderAgrees =>
          /\ NoNegativeTotal(aggregated_data) /\ NoNegativeTotal(aggregated_data')
          /\ IterationDone =>
                \A s \in AllSessions :
                    TotalOf(aggregated_data', s) >= TotalOf(aggregated_data, s)
      ]_vars

\* C17 witness: such an input, given out of order, returned a positive total
C17_Witness ==
    /\ OrderAgrees
    /\ AggregateReturned
    /\ sorted_events # raw_events
    /\ \E s \in AllSessions : TotalOf(aggregated_data, s) > 0

----------------------------------------------------------------------------
(* C18 *)

\* the number of events of the given type among the events of session s
\* processed so far with a parseable timestamp
ProcessedOfType(s, type) ==
    Len(SelectSeq(OfSession(Processed, s), LAMBDA e : e.event_type = type))

\* C18: in every state of the pass and in the result, a session's count is at
\* most the number of its buffer_start events processed so far with a
\* parseable timestamp, and at most the number of such buffer_end events.
C18_CountBounded ==
    \A s \in AllSessions :
        /\ CountOf(aggregated_data, s) <= ProcessedOfType(s, BUFFER_START)
        /\ CountOf(aggregated_data, s) <= ProcessedOfType(s, BUFFER_END)

\* C18 witness: a returned session with one counted interval out of two
\* processed starts and one processed end
C18_Witness ==
    /\ AggregateReturned
    /\ \E s \in AllSessions :
          /\ CountOf(aggregated_data, s) = 1
          /\ ProcessedOfType(s, BUFFER_START) = 2
          /\ ProcessedOfType(s, BUFFER_END) = 1

----------------------------------------------------------------------------
(* C19 *)

Summarized == summary # NoSummary

\* C19: the summary computed on the mapping returned by
\* aggregate_buffering_data counts at least as many buffer events as sessions
\* with buffering, and the one is 0 exactly when the other is, so the guards
\* of lines 102 and 106 take the same branch and no division by zero occurs.
C19_EventsCoverSessions ==
    Summarized =>
        /\ summary = generate_summary_metrics(aggregated_data)
        /\ summary.total_buffer_events >= summary.total_sessions_with_buffering
        /\ summary.total_sessions_with_buffering = 0 <=> summary.total_buffer_events = 0
        /\ summary.exc = "none"

\* C19 witness: a summary that counts a session and its events, for an input
\* in which another session had only an unmatched buffer_end
C19_Witness ==
    /\ pc = "done"
    /\ Summarized
    /\ summary.total_sessions_with_buffering >= 1
    /\ summary.total_buffer_events >= 1
    /\ \E i \in 1..Len(UnmatchedWarnings) :
          UnmatchedWarnings[i].event.session_id \notin DOMAIN aggregated_data

\* a summary with more buffer events than sessions
C19_MoreEventsThanSessions ==
    /\ pc = "done"
    /\ summary.total_sessions_with_buffering >= 1
    /\ summary.total_buffer_events > summary.total_sessions_with_buffering

\* the other case: a non-empty input whose summary has no session and no event
C19_NothingCounted ==
    /\ pc = "done"
    /\ raw_events # <<>>
    /\ summary.total_sessions_with_buffering = 0
    /\ summary.total_buffer_events = 0

============================================================================
